---- MODULE Spec2Model ----
(***************************************************************************)
(* Model of nautobot_golden_config/utilities/helper.py:                    *)
(*   get_secret_by_secret_group_slug, get_device_to_settings_map,          *)
(*   get_job_filter, render_jinja_template, render_secrets and             *)
(*   get_config_to_push.                                                   *)
(* Each helper has its own specification (SpecSecret, SpecMap, SpecScope,  *)
(* SpecJinja, SpecPipeline) over the shared variables below; the variables *)
(* a specification does not use stay at their initial value.               *)
(***************************************************************************)
EXTENDS Integers, Sequences, FiniteSets, TLC

VARIABLES
    \* ---- Secret Store and Authorization Oracle (nautobot, external) ----
    user,             \* the User object: is_superuser, is_authenticated, permissions
    exempt,           \* what permission_is_exempt("extras.view_secretsgroup") answers
    secrets_groups,   \* slugs of the SecretsGroup rows that exist
    secret_values,    \* <<access_type, secret_type>> -> value, or NoSecret
    secret_args,      \* arguments of the last get_secret_by_secret_group_slug call
    secret_result,    \* its outcome: [kind, value]
    secret_calls      \* the lookups that call made, in order

VARIABLES
    \* ---- Device Directory (nautobot, external): read-only to the helpers ----
    dynamic_group_filter,   \* DynamicGroup.filter of every group
    golden_config_setting,  \* group -> weight, for the groups that have a setting
    platform,               \* Device.platform, NoPlatform when null
    \* ---- get_device_to_settings_map ----
    map_queryset,           \* the queryset argument of the last call
    device_to_settings_map, \* the mapping it returned
    map_pc,                 \* "idle" | "done"
    \* ---- get_job_filter ----
    job_data,               \* the data argument of the last call
    base_qs,                \* Device.objects.filter(raw_qs) of that call
    job_result              \* its outcome: [kind, value, devices]

VARIABLES
    \* ---- render_jinja_template ----
    jinja_obj,        \* the Device being rendered for
    jinja_template,   \* the template argument
    jinja_pc,         \* "idle" | "except" | "logged" | "done"
    jinja_error,      \* the class of the Jinja error caught, or "none"
    jinja_result,     \* the outcome of the call
    jinja_log_base,   \* how many entries the logger held when the call began
    logger_entries    \* the logger's failure entries: [obj, message]

VARIABLES
    \* ---- get_config_to_push ----
    intended_config,        \* configs.intended_config
    pipe_device,            \* configs.device
    plugin_callables,       \* PLUGIN_CFG["config_push_callable"]
    plugin_subscribed,      \* PLUGIN_CFG["config_push_subscribed"], <<>> if unset
    custom_subscribed,      \* the custom_subscribed argument, <<>> if None
    config_push_subscribed, \* the ordered names being processed
    name_index,             \* position of the loop of line 316
    callable_index,         \* position of the loop of line 317
    config_to_push,         \* the output accumulated so far
    invocations,            \* the stages invoked so far, in order
    push_result,            \* the outcome of get_config_to_push
    pipe_pc                 \* "idle" | "loop" | "done"

secretVars == <<user, exempt, secrets_groups, secret_values, secret_args,
                secret_result, secret_calls>>

directoryVars == <<dynamic_group_filter, golden_config_setting, platform>>

mapVars == <<map_queryset, device_to_settings_map, map_pc>>

jobVars == <<job_data, base_qs, job_result>>

jinjaVars == <<jinja_obj, jinja_template, jinja_pc, jinja_error, jinja_result,
               jinja_log_base, logger_entries>>

pipeVars == <<intended_config, pipe_device, plugin_callables, plugin_subscribed,
              custom_subscribed, config_push_subscribed, name_index, callable_index,
              config_to_push, invocations, push_result, pipe_pc>>

vars == <<secretVars, directoryVars, mapVars, jobVars, jinjaVars, pipeVars>>

(***************************************************************************)
(* Outcomes of a call: it returns a value or raises an exception.          *)
(***************************************************************************)
Return(v) == [kind |-> "return", value |-> v]

Raise(e) == [kind |-> "raise", value |-> e]

NoCall == [kind |-> "none", value |-> ""]

(***************************************************************************)
(* get_secret_by_secret_group_slug                                         *)
(***************************************************************************)
permission_secrets_group == "extras.view_secretsgroup"

Permissions == {permission_secrets_group, "dcim.view_device"}

Users == [is_superuser : BOOLEAN, is_authenticated : BOOLEAN,
          permissions : SUBSET Permissions]

Slugs == {"secrets-group-1", "sg2"}

TYPE_GENERIC == "Generic"

AccessTypes == {TYPE_GENERIC, "HTTP(S)"}

SecretTypes == {"secret", "password"}

NoSecret == "<no association>"

SecretValues == {"supersecretvalue", "hunter2"}

\* SecretsGroup.objects.get(slug=...): the row, or DoesNotExist.
SecretsGroup_get(groups, slug) ==
    IF slug \in groups THEN Return(slug) ELSE Raise("SecretsGroup.DoesNotExist")

\* SecretsGroup.get_secret_value(access_type, secret_type): the value, or the
\* association's DoesNotExist.
get_secret_value(values, access_type, secret_type) ==
    IF values[<<access_type, secret_type>>] = NoSecret
    THEN Raise("SecretsGroupAssociation.DoesNotExist")
    ELSE Return(values[<<access_type, secret_type>>])

\* What the Secret Store gives for (group, access type, secret type).
SecretStore(groups, values, slug, access_type, secret_type) ==
    IF SecretsGroup_get(groups, slug).kind = "raise"
    THEN SecretsGroup_get(groups, slug)
    ELSE get_secret_value(values, access_type, secret_type)

DenialString(slug) == "You have no permission to read this secret " \o slug \o "."

\* A bypass that needs both conditions; C1 tells it from the code.
bypass_restriction_and(u, ex) == u.is_superuser /\ ex

\* helper.py line 177: the bypass for superusers and exempt views.
bypass_restriction(u, ex) == u.is_superuser \/ ex

\* helper.py line 180: anonymous, or not granted the permission.
not_granted(u) ==
    ~u.is_authenticated \/ permission_secrets_group \notin u.permissions

\* The lookups of lines 183-188, with the calls they make.
secret_lookup(groups, values, slug, secret_type, access_type) ==
    IF SecretsGroup_get(groups, slug).kind = "raise"
    THEN [out |-> SecretsGroup_get(groups, slug),
          calls |-> <<"SecretsGroup.objects.get">>]
    ELSE [out |-> get_secret_value(values, access_type, secret_type),
          calls |-> <<"SecretsGroup.objects.get", "get_secret_value">>]

\* A lookup made before the permission check; C2 tells it from the code.
get_secret_lookup_first(u, ex, groups, values, slug, secret_type, access_type) ==
    IF secret_lookup(groups, values, slug, secret_type, access_type).out.kind = "raise"
    THEN secret_lookup(groups, values, slug, secret_type, access_type)
    ELSE IF ~bypass_restriction(u, ex) /\ not_granted(u)
         THEN [out |-> Return(DenialString(slug)),
               calls |-> secret_lookup(groups, values, slug, secret_type, access_type).calls]
         ELSE secret_lookup(groups, values, slug, secret_type, access_type)

get_secret_by_secret_group_slug(u, ex, groups, values, slug, secret_type, access_type) ==
    IF bypass_restriction(u, ex)
    THEN secret_lookup(groups, values, slug, secret_type, access_type)
    ELSE IF not_granted(u)
         THEN [out |-> Return(DenialString(slug)), calls |-> <<>>]
         ELSE secret_lookup(groups, values, slug, secret_type, access_type)

SecretInit ==
    /\ user \in Users
    /\ exempt \in BOOLEAN
    /\ secrets_groups \in SUBSET Slugs
    /\ secret_values \in [AccessTypes \X SecretTypes -> SecretValues \cup {NoSecret}]
    /\ secret_args = <<>>
    /\ secret_result = NoCall
    /\ secret_calls = <<>>

SecretIdle ==
    /\ user = [is_superuser |-> FALSE, is_authenticated |-> FALSE, permissions |-> {}]
    /\ exempt = FALSE
    /\ secrets_groups = {}
    /\ secret_values = [k \in AccessTypes \X SecretTypes |-> NoSecret]
    /\ secret_args = <<>>
    /\ secret_result = NoCall
    /\ secret_calls = <<>>

\* A call with the default access type (helper.py line 159) or an explicit one.
CallGetSecret(slug, secret_type, access_type) ==
    /\ secret_result.kind = "none"
    /\ secret_args' = <<slug, secret_type, access_type>>
    /\ secret_result' = get_secret_by_secret_group_slug(user, exempt, secrets_groups,
                            secret_values, slug, secret_type, access_type).out
    /\ secret_calls' = get_secret_by_secret_group_slug(user, exempt, secrets_groups,
                            secret_values, slug, secret_type, access_type).calls
    /\ UNCHANGED <<user, exempt, secrets_groups, secret_values>>
    /\ UNCHANGED <<directoryVars, mapVars, jobVars, jinjaVars, pipeVars>>

GetSecretDefaultAccess ==
    \E slug \in Slugs, st \in SecretTypes : CallGetSecret(slug, st, TYPE_GENERIC)

GetSecretWithAccess ==
    \E slug \in Slugs, st \in SecretTypes, at \in AccessTypes :
        CallGetSecret(slug, st, at)

(***************************************************************************)
(* The Device Directory: devices, dynamic groups, golden config settings.  *)
(***************************************************************************)
NumDevices == 2

Devices == 1 .. NumDevices

NumGroups == 2

Groups == 1 .. NumGroups

MaxWeight == 2

Weights == 1 .. MaxWeight

Platforms == {"cisco_ios", "arista_eos"}

NoPlatform == "<null>"

\* DynamicGroup.filter: the text "{}" matches every device; any other filter
\* is given by the devices it matches.
TrivialFilter == "{}"

Filters ==
    {[filter |-> TrivialFilter, devices |-> Devices]}
        \cup {[filter |-> "{...}", devices |-> S] : S \in SUBSET Devices}

\* GoldenConfigSetting is one-to-one with its DynamicGroup (migration 0021):
\* a setting is named by its group, and carries a weight.
Settings == UNION {[C -> Weights] : C \in SUBSET Groups}

\* Device.dynamic_groups: the groups whose filter matches the device.
dynamic_groups(d) == {g \in Groups : d \in dynamic_group_filter[g].devices}

\* .exclude(golden_config_setting__isnull=True)
exclude_setting_isnull(gs) == {g \in gs : g \in DOMAIN golden_config_setting}

Permutations_of(S) ==
    {s \in [1 .. Cardinality(S) -> S] : \A i, j \in DOMAIN s : i # j => s[i] # s[j]}

\* An order_by without the minus sign; C6 tells it from the code.
order_by_weight_asc(S) ==
    {s \in Permutations_of(S) :
        \A i, j \in DOMAIN s :
            i < j => golden_config_setting[s[i]] <= golden_config_setting[s[j]]}

\* .order_by("-golden_config_setting__weight"): every order the database may
\* give, rows of equal weight in any order.
order_by_weight_desc(S) ==
    {s \in Permutations_of(S) :
        \A i, j \in DOMAIN s :
            i < j => golden_config_setting[s[i]] >= golden_config_setting[s[j]]}

\* dynamic_group.first(): the head of any of those orders.
first_by_weight(S) == {s[1] : s \in order_by_weight_desc(S)}

\* The mappings get_device_to_settings_map may return for a queryset: a key
\* for every device whose dynamic_group.exists().
get_device_to_settings_map(queryset) ==
    LET dynamic_group == [d \in queryset |-> exclude_setting_isnull(dynamic_groups(d))]
        keys == {d \in queryset : dynamic_group[d] # {}}
        firsts == [d \in keys |-> first_by_weight(dynamic_group[d])]
    IN  {m \in [keys -> Groups] : \A d \in keys : m[d] \in firsts[d]}

DirectoryIdle ==
    /\ dynamic_group_filter = [g \in Groups |-> [filter |-> TrivialFilter, devices |-> Devices]]
    /\ golden_config_setting = <<>>
    /\ platform = [d \in Devices |-> NoPlatform]

MapIdle ==
    /\ map_queryset = {}
    /\ device_to_settings_map = <<>>
    /\ map_pc = "idle"

CallGetDeviceMap ==
    /\ map_pc = "idle"
    /\ \E queryset \in SUBSET Devices :
        \E m \in get_device_to_settings_map(queryset) :
            /\ map_queryset' = queryset
            /\ device_to_settings_map' = m
    /\ map_pc' = "done"
    /\ UNCHANGED <<secretVars, directoryVars, jobVars, jinjaVars, pipeVars>>

(***************************************************************************)
(* get_job_filter                                                          *)
(***************************************************************************)
\* django.db.models.Q: Q() is empty, and "|" drops an empty operand.
Q_empty == [empty |-> TRUE, devices |-> {}]

Q_or(a, b) ==
    IF a.empty THEN b
    ELSE IF b.empty THEN a
    ELSE [empty |-> FALSE, devices |-> a.devices \cup b.devices]

\* Device.objects.filter(q): an empty Q restricts nothing.
Device_objects_filter(q) == IF q.empty THEN Devices ELSE q.devices

\* DynamicGroup.generate_query()
generate_query(g) ==
    [empty |-> dynamic_group_filter[g].filter = TrivialFilter,
     devices |-> dynamic_group_filter[g].devices]

RECURSIVE or_all(_, _)
\* helper.py lines 64-65: the loop over GoldenConfigSetting.objects.all()
or_all(raw_qs, objs) ==
    IF objs = {} THEN raw_qs
    ELSE LET obj == CHOOSE o \in objs : TRUE
         IN  or_all(Q_or(raw_qs, generate_query(obj)), objs \ {obj})

\* helper.py lines 61-67
base_queryset ==
    IF ~(\E obj \in DOMAIN golden_config_setting :
            dynamic_group_filter[obj].filter = TrivialFilter)
    THEN Device_objects_filter(or_all(Q_empty, DOMAIN golden_config_setting))
    ELSE Device_objects_filter(Q_empty)

JobData == [platform : SUBSET Platforms, device : SUBSET Devices]

\* helper.py lines 44-59: the query built from the job parameters. "platform"
\* stands for the ten FIELDS, all translated alike; an empty selection is
\* falsy and adds no key; a single Device and a queryset both become "id".
build_query(data) ==
    LET keys == (IF data.platform # {} THEN {"platform_id"} ELSE {})
                    \cup (IF data.device # {} THEN {"id"} ELSE {})
    IN  [k \in keys |-> IF k = "platform_id" THEN data.platform ELSE data.device]

\* A filterset that forgets its queryset argument; C8 tells it from the code.
DeviceFilterSet_qs_all(query, queryset) ==
    {d \in Devices :
        /\ "platform_id" \in DOMAIN query => platform[d] \in query["platform_id"]
        /\ "id" \in DOMAIN query => d \in query["id"]}

\* DeviceFilterSet(data=query, queryset=base_qs).qs
DeviceFilterSet_qs(query, queryset) ==
    {d \in queryset :
        /\ "platform_id" \in DOMAIN query => platform[d] \in query["platform_id"]
        /\ "id" \in DOMAIN query => d \in query["id"]}

EmptyBaseScopeMsg ==
    "The base queryset didn't find any devices. Please check the Golden Config Setting scope."

NoMatchingDevicesMsg ==
    "The provided job parameters didn't match any devices detected by the Golden Config scope. Please check the scope defined within Golden Config Settings or select the correct job parameters to correctly match devices."

MissingPlatformMsg ==
    "The following device(s) {names} have no platform defined. Platform is required."

\* A NornirNautobotException with its message; devices are the names in it.
NornirNautobotException(msg, names) ==
    [kind |-> "raise", value |-> msg, devices |-> names]

\* helper.py lines 69-84
get_job_filter(data) ==
    LET devices_filtered == DeviceFilterSet_qs(build_query(data), base_queryset)
        devices_no_platform == {d \in devices_filtered : platform[d] = NoPlatform}
    IN  IF base_queryset = {}
        THEN NornirNautobotException(EmptyBaseScopeMsg, {})
        ELSE IF devices_filtered = {}
        THEN NornirNautobotException(NoMatchingDevicesMsg, {})
        ELSE IF devices_no_platform # {}
        THEN NornirNautobotException(MissingPlatformMsg, devices_no_platform)
        ELSE [kind |-> "return", value |-> "", devices |-> devices_filtered]

JobIdle ==
    /\ job_data = [platform |-> {}, device |-> {}]
    /\ base_qs = {}
    /\ job_result = [kind |-> "none", value |-> "", devices |-> {}]

\* get_job_filter() with no data (helper.py lines 42-43) or with job parameters.
CallGetJobFilter(data) ==
    /\ job_result.kind = "none"
    /\ job_data' = data
    /\ base_qs' = base_queryset
    /\ job_result' = get_job_filter(data)
    /\ UNCHANGED <<secretVars, directoryVars, mapVars, jinjaVars, pipeVars>>

GetJobFilterNoData == CallGetJobFilter([platform |-> {}, device |-> {}])

GetJobFilterWithData == \E data \in JobData : CallGetJobFilter(data)

(***************************************************************************)
(* render_jinja_template                                                   *)
(***************************************************************************)
MaxLogEntries == 2

\* Device.name of a device.
device_name(d) == "device-" \o ToString(d)

\* jinja2.exceptions, by class name: TemplateAssertionError is a
\* TemplateSyntaxError, UndefinedError is a TemplateRuntimeError, and all are
\* TemplateError.
JinjaErrors ==
    {"UndefinedError", "TemplateSyntaxError", "TemplateAssertionError",
     "TemplateRuntimeError"}

is_UndefinedError(e) == e = "UndefinedError"

is_TemplateSyntaxError(e) == e \in {"TemplateSyntaxError", "TemplateAssertionError"}

is_TemplateError(e) == e \in JinjaErrors

\* Templates given to render_jinja_template, with what Jinja does with each.
JinjaTemplates ==
    {"hostname {{ obj.name }}", "{{ obj.site.missing.attr }}", "{% if %}",
     "{{ obj | no_such_filter }}", "{{ [obj] | map | list }}"}

\* render_jinja2(template_code=template, context={"obj": obj})
render_jinja2(template, obj) ==
    CASE template = "hostname {{ obj.name }}" ->
            [kind |-> "return", value |-> "hostname " \o device_name(obj)]
      [] template = "{{ obj.site.missing.attr }}" ->
            [kind |-> "raise", value |-> "UndefinedError"]
      [] template = "{% if %}" ->
            [kind |-> "raise", value |-> "TemplateSyntaxError"]
      [] template = "{{ obj | no_such_filter }}" ->
            [kind |-> "raise", value |-> "TemplateAssertionError"]
      [] OTHER ->
            [kind |-> "raise", value |-> "TemplateRuntimeError"]

\* helper.py lines 120-123, 127-130, 135-138: error_msg of each except clause
\* (error.lineno is 1 for the one-line templates above; the stray backquote
\* of line 121 is left out).
jinja_error_msg(e, template) ==
    IF is_UndefinedError(e)
    THEN "Jinja encountered and UndefinedError, check the template for missing variable definitions.\nTemplate:\n"
             \o template
    ELSE IF is_TemplateSyntaxError(e)
    THEN "Jinja encountered a SyntaxError at line number 1,check the template for invalid Jinja syntax.\nTemplate:\n"
             \o template
    ELSE "Jinja encountered an unexpected TemplateError; check the template for correctness\nTemplate:\n"
             \o template

JinjaIdle ==
    /\ jinja_obj = 1
    /\ jinja_template = ""
    /\ jinja_pc = "idle"
    /\ jinja_error = "none"
    /\ jinja_result = NoCall
    /\ jinja_log_base = 0
    /\ logger_entries = <<>>

\* helper.py lines 117-118: the render succeeds and its text is returned.
JinjaRenderReturns(obj, template) ==
    /\ jinja_pc \in {"idle", "done"}
    /\ Len(logger_entries) < MaxLogEntries
    /\ render_jinja2(template, obj).kind = "return"
    /\ jinja_obj' = obj
    /\ jinja_template' = template
    /\ jinja_error' = "none"
    /\ jinja_log_base' = Len(logger_entries)
    /\ jinja_result' = render_jinja2(template, obj)
    /\ jinja_pc' = "done"
    /\ UNCHANGED logger_entries
    /\ UNCHANGED <<secretVars, directoryVars, mapVars, jobVars, pipeVars>>

\* helper.py lines 117-119, 126, 134: the render raises and an except clause
\* catches the error.
JinjaRenderRaises(obj, template) ==
    /\ jinja_pc \in {"idle", "done"}
    /\ Len(logger_entries) < MaxLogEntries
    /\ render_jinja2(template, obj).kind = "raise"
    /\ is_TemplateError(render_jinja2(template, obj).value)
    /\ jinja_obj' = obj
    /\ jinja_template' = template
    /\ jinja_error' = render_jinja2(template, obj).value
    /\ jinja_log_base' = Len(logger_entries)
    /\ jinja_result' = NoCall
    /\ jinja_pc' = "except"
    /\ UNCHANGED logger_entries
    /\ UNCHANGED <<secretVars, directoryVars, mapVars, jobVars, pipeVars>>

\* helper.py lines 124 and 131: logger.log_failure(obj, error_msg)
JinjaLogFailure ==
    /\ jinja_pc = "except"
    /\ is_UndefinedError(jinja_error) \/ is_TemplateSyntaxError(jinja_error)
    /\ logger_entries' = Append(logger_entries,
            [obj |-> device_name(jinja_obj),
             message |-> jinja_error_msg(jinja_error, jinja_template)])
    /\ jinja_pc' = "logged"
    /\ UNCHANGED <<jinja_obj, jinja_template, jinja_error, jinja_result, jinja_log_base>>
    /\ UNCHANGED <<secretVars, directoryVars, mapVars, jobVars, pipeVars>>

\* helper.py line 139: logger.log_failure(error_msg), the message as the only
\* argument. A logger whose log_failure(obj, message) requires both raises
\* TypeError, and that leaves the function instead of line 140's exception.
JinjaLogFailureTypeError ==
    /\ jinja_pc = "except"
    /\ ~is_UndefinedError(jinja_error) /\ ~is_TemplateSyntaxError(jinja_error)
    /\ jinja_result' = Raise("TypeError")
    /\ jinja_pc' = "done"
    /\ UNCHANGED <<jinja_obj, jinja_template, jinja_error, jinja_log_base, logger_entries>>
    /\ UNCHANGED <<secretVars, directoryVars, mapVars, jobVars, pipeVars>>

\* helper.py line 139 with a logger whose message is optional: the entry is
\* recorded with the message in the place of the object.
JinjaLogFailureWithoutObj ==
    /\ jinja_pc = "except"
    /\ ~is_UndefinedError(jinja_error) /\ ~is_TemplateSyntaxError(jinja_error)
    /\ logger_entries' = Append(logger_entries,
            [obj |-> jinja_error_msg(jinja_error, jinja_template), message |-> ""])
    /\ jinja_pc' = "logged"
    /\ UNCHANGED <<jinja_obj, jinja_template, jinja_error, jinja_result, jinja_log_base>>
    /\ UNCHANGED <<secretVars, directoryVars, mapVars, jobVars, pipeVars>>

\* helper.py lines 125, 132, 140: raise NornirNautobotException from error
JinjaRaise ==
    /\ jinja_pc = "logged"
    /\ jinja_result' = Raise("NornirNautobotException")
    /\ jinja_pc' = "done"
    /\ UNCHANGED <<jinja_obj, jinja_template, jinja_error, jinja_log_base, logger_entries>>
    /\ UNCHANGED <<secretVars, directoryVars, mapVars, jobVars, pipeVars>>

JinjaNext ==
    \/ \E obj \in Devices, template \in JinjaTemplates : JinjaRenderReturns(obj, template)
    \/ \E obj \in Devices, template \in JinjaTemplates : JinjaRenderRaises(obj, template)
    \/ JinjaLogFailure
    \/ JinjaLogFailureTypeError
    \/ JinjaLogFailureWithoutObj
    \/ JinjaRaise

(***************************************************************************)
(* render_secrets and get_config_to_push                                   *)
(***************************************************************************)
MaxCallables == 2

MaxSubscribed == 2

BoundedSeq(S, n) == UNION {[1 .. k -> S] : k \in 0 .. n}

\* Outcomes of a stage and of the pipeline: a returned string, or an
\* exception of class exc with its message.
Returned(v) == [kind |-> "return", exc |-> "", value |-> v]

Raised(exc, msg) == [kind |-> "raise", exc |-> exc, value |-> msg]

NotCalled == [kind |-> "none", exc |-> "", value |-> ""]

\* configs.intended_config: absent, or a stored intended configuration.
IntendedConfigs == {"", "hostname {{ hostname }}"}

\* What jinja_env.from_string, graph_ql_query and template.render may do.
ParseOutcomes == {"ok", "TemplateAssertionError", "TemplateSyntaxError"}

GraphQLOutcomes == {"ok", "error"}

RenderOutcomes ==
    {"ok", "UndefinedError", "TemplateSyntaxError", "TemplateRuntimeError"}

\* template.render(device_data): the text with its expressions substituted.
template_render(config_to_render) == config_to_render \o " [rendered]"

NoReferenceMsg == "No reference Intended configuration to render secrets from"

\* helper.py lines 245-256: the message of each except clause (the text of
\* the UndefinedError is Jinja's, error.lineno is 1).
render_error_msg(e) ==
    IF is_UndefinedError(e)
    THEN "Jinja encountered and UndefinedError: 'x' is undefined, check the template for missing variable definitions.\n"
    ELSE IF is_TemplateSyntaxError(e)
    THEN "Jinja encountered a SyntaxError at line number 1,check the template for invalid Jinja syntax.\n"
    ELSE "Jinja encountered an unexpected TemplateError; check the template for correctness\n"

\* A render source that ignores the stage's input; C9 tells it from the code.
config_to_render_stored(current_output, intended) == intended

\* helper.py line 228: config_to_push or configs.intended_config (the
\* parameter config_to_push is current_output here)
config_to_render_of(current_output, intended) ==
    IF current_output # "" THEN current_output ELSE intended

\* helper.py lines 197-256. settings_map is what get_device_to_settings_map
\* returned for the device; parse, gql and render are what the template
\* engine and the query executor do. The result carries the stage's outcome,
\* the text it rendered from, the calls it made and the failure it met.
render_secrets(current_output, intended, device, settings_map, parse, gql, render) ==
    LET source == config_to_render_of(current_output, intended)
        result(out, calls, failure) ==
            [out |-> out, source |-> source, calls |-> calls, failure |-> failure]
    IN  IF source = ""
        THEN result(Raised("RenderConfigToPushError", NoReferenceMsg), <<>>, "no_reference")
        ELSE IF parse = "TemplateAssertionError"
        THEN result(Returned("Jinja encountered an TemplateAssertionError: 'no filter named x'; check the template for correctness"),
                    <<"from_string">>, "parse:TemplateAssertionError")
        ELSE IF parse # "ok"
        THEN result(Raised(parse, "unexpected tag"), <<"from_string">>, "parse:" \o parse)
        ELSE IF device \notin DOMAIN settings_map
        THEN result(Raised("KeyError", device_name(device)),
                    <<"from_string", "get_device_to_settings_map">>, "no_settings")
        ELSE IF gql # "ok"
        THEN result(Raised("GraphQLError", "query failed"),
                    <<"from_string", "get_device_to_settings_map", "graph_ql_query">>,
                    "graph_ql_query")
        ELSE IF render = "ok"
        THEN result(Returned(template_render(source)),
                    <<"from_string", "get_device_to_settings_map", "graph_ql_query",
                      "template.render">>, "none")
        ELSE result(Raised("RenderConfigToPushError", render_error_msg(render)),
                    <<"from_string", "get_device_to_settings_map", "graph_ql_query",
                      "template.render">>, "render:" \o render)

\* The callables of PLUGIN_CFG["config_push_callable"]: each has a __name__ and
\* either transforms its input or raises RenderConfigToPushError.
ExtraCallables == [name : {"render_secrets", "encrypt"}, effect : {"transform", "fail"}]

StageNames == {"render_secrets", "encrypt", "not_registered"}

plugin_callable(func, current_output) ==
    IF func.effect = "transform"
    THEN [out |-> Returned(current_output \o " [" \o func.name \o "]"),
          source |-> current_output, calls |-> <<>>, failure |-> "none"]
    ELSE [out |-> Raised("RenderConfigToPushError", func.name \o " failed"),
          source |-> current_output, calls |-> <<>>, failure |-> "callable"]

\* helper.py line 306: [render_secrets] + PLUGIN_CFG.get("config_push_callable", [])
config_push_callable ==
    <<[name |-> "render_secrets", effect |-> "render_secrets"]>> \o plugin_callables

\* A list of names that ignores the caller's list; C5 tells it from the code.
subscribed_names_ignore_custom(custom, configured) ==
    IF configured # <<>> THEN configured ELSE <<"render_secrets">>

\* helper.py lines 309-314
subscribed_names(custom, configured) ==
    IF custom # <<>> THEN custom
    ELSE IF configured # <<>> THEN configured
    ELSE <<"render_secrets">>

\* An error string that drops the message; C4 tells it from the code.
error_string_without_message(msg) ==
    "Find an error rendering the configuration to push: "

\* helper.py line 322
error_string(msg) == "Find an error rendering the configuration to push: " \o msg

PipeIdle ==
    /\ intended_config = ""
    /\ pipe_device = 1
    /\ plugin_callables = <<>>
    /\ plugin_subscribed = <<>>
    /\ custom_subscribed = <<>>
    /\ config_push_subscribed = <<>>
    /\ name_index = 1
    /\ callable_index = 1
    /\ config_to_push = ""
    /\ invocations = <<>>
    /\ push_result = NotCalled
    /\ pipe_pc = "idle"

pipeConfig == <<intended_config, pipe_device, plugin_callables, plugin_subscribed>>

\* helper.py lines 303-314
CallGetConfigToPush ==
    /\ pipe_pc = "idle"
    /\ \E custom \in BoundedSeq(StageNames, MaxSubscribed) :
        /\ custom_subscribed' = custom
        /\ config_push_subscribed' = subscribed_names(custom, plugin_subscribed)
    /\ config_to_push' = ""
    /\ name_index' = 1
    /\ callable_index' = 1
    /\ pipe_pc' = "loop"
    /\ UNCHANGED <<pipeConfig, invocations, push_result>>
    /\ UNCHANGED <<secretVars, directoryVars, mapVars, jobVars, jinjaVars>>

InLoop ==
    /\ pipe_pc = "loop"
    /\ name_index <= Len(config_push_subscribed)
    /\ callable_index <= Len(config_push_callable)

\* helper.py line 318, false: the callable has another name.
SkipCallable ==
    /\ InLoop
    /\ config_push_callable[callable_index].name # config_push_subscribed[name_index]
    /\ callable_index' = callable_index + 1
    /\ UNCHANGED <<pipeConfig, custom_subscribed, config_push_subscribed, name_index,
                   config_to_push, invocations, push_result, pipe_pc>>
    /\ UNCHANGED <<secretVars, directoryVars, mapVars, jobVars, jinjaVars>>

\* helper.py line 317 exhausted: on to the next name of line 316.
NextName ==
    /\ pipe_pc = "loop"
    /\ name_index <= Len(config_push_subscribed)
    /\ callable_index > Len(config_push_callable)
    /\ name_index' = name_index + 1
    /\ callable_index' = 1
    /\ UNCHANGED <<pipeConfig, custom_subscribed, config_push_subscribed,
                   config_to_push, invocations, push_result, pipe_pc>>
    /\ UNCHANGED <<secretVars, directoryVars, mapVars, jobVars, jinjaVars>>

\* helper.py lines 319-322: the call of a stage and what follows from its
\* outcome: the output is fed forward, a RenderConfigToPushError ends the
\* call with the error string, any other exception leaves the function.
Invoke(r) ==
    /\ invocations' = Append(invocations,
            [func |-> callable_index, input |-> config_to_push, source |-> r.source,
             calls |-> r.calls, failure |-> r.failure, out |-> r.out])
    /\ IF r.out.kind = "return"
       THEN /\ config_to_push' = r.out.value
            /\ callable_index' = callable_index + 1
            /\ UNCHANGED <<push_result, pipe_pc>>
       ELSE /\ push_result' = IF r.out.exc = "RenderConfigToPushError"
                              THEN Returned(error_string(r.out.value))
                              ELSE r.out
            /\ pipe_pc' = "done"
            /\ UNCHANGED <<config_to_push, callable_index>>
    /\ UNCHANGED <<pipeConfig, custom_subscribed, config_push_subscribed, name_index>>
    /\ UNCHANGED <<secretVars, directoryVars, mapVars, jobVars, jinjaVars>>

InvokeRenderSecrets ==
    /\ InLoop
    /\ config_push_callable[callable_index].name = config_push_subscribed[name_index]
    /\ config_push_callable[callable_index].effect = "render_secrets"
    /\ \E settings_map \in get_device_to_settings_map({pipe_device}) :
        \E parse \in ParseOutcomes, gql \in GraphQLOutcomes, render \in RenderOutcomes :
            Invoke(render_secrets(config_to_push, intended_config, pipe_device,
                                  settings_map, parse, gql, render))

InvokePluginCallable ==
    /\ InLoop
    /\ config_push_callable[callable_index].name = config_push_subscribed[name_index]
    /\ config_push_callable[callable_index].effect # "render_secrets"
    /\ Invoke(plugin_callable(config_push_callable[callable_index], config_to_push))

\* helper.py line 324
ReturnConfigToPush ==
    /\ pipe_pc = "loop"
    /\ name_index > Len(config_push_subscribed)
    /\ push_result' = Returned(config_to_push)
    /\ pipe_pc' = "done"
    /\ UNCHANGED <<pipeConfig, custom_subscribed, config_push_subscribed, name_index,
                   callable_index, config_to_push, invocations>>
    /\ UNCHANGED <<secretVars, directoryVars, mapVars, jobVars, jinjaVars>>

PipelineNext ==
    \/ CallGetConfigToPush
    \/ SkipCallable
    \/ NextName
    \/ InvokeRenderSecrets
    \/ InvokePluginCallable
    \/ ReturnConfigToPush

(***************************************************************************)
(* Specifications                                                          *)
(***************************************************************************)
SecretNext == GetSecretDefaultAccess \/ GetSecretWithAccess

SecretSpecInit ==
    SecretInit /\ DirectoryIdle /\ MapIdle /\ JobIdle /\ JinjaIdle /\ PipeIdle

SpecSecret == SecretSpecInit /\ [][SecretNext]_vars

MapInit ==
    /\ dynamic_group_filter \in [Groups -> Filters]
    /\ golden_config_setting \in Settings
    /\ platform = [d \in Devices |-> NoPlatform]
    /\ SecretIdle /\ MapIdle /\ JobIdle /\ JinjaIdle /\ PipeIdle

SpecMap == MapInit /\ [][CallGetDeviceMap]_vars

ScopeInit ==
    /\ dynamic_group_filter \in [Groups -> Filters]
    /\ golden_config_setting \in {[g \in C |-> 1] : C \in SUBSET Groups}
    /\ platform \in [Devices -> Platforms \cup {NoPlatform}]
    /\ SecretIdle /\ MapIdle /\ JobIdle /\ JinjaIdle /\ PipeIdle

ScopeNext == GetJobFilterNoData \/ GetJobFilterWithData

SpecScope == ScopeInit /\ [][ScopeNext]_vars

JinjaInit ==
    SecretIdle /\ DirectoryIdle /\ MapIdle /\ JobIdle /\ JinjaIdle /\ PipeIdle

SpecJinja == JinjaInit /\ [][JinjaNext]_vars

PipelineInit ==
    /\ intended_config \in IntendedConfigs
    /\ pipe_device = 1
    /\ plugin_callables \in BoundedSeq(ExtraCallables, MaxCallables)
    /\ plugin_subscribed \in {<<>>, <<"encrypt", "render_secrets">>}
    /\ custom_subscribed = <<>>
    /\ config_push_subscribed = <<>>
    /\ name_index = 1
    /\ callable_index = 1
    /\ config_to_push = ""
    /\ invocations = <<>>
    /\ push_result = NotCalled
    /\ pipe_pc = "idle"
    /\ dynamic_group_filter = [g \in Groups |-> [filter |-> TrivialFilter, devices |-> Devices]]
    /\ golden_config_setting \in {[g \in C |-> 1] : C \in {{}, {1}}}
    /\ platform = [d \in Devices |-> NoPlatform]
    /\ SecretIdle /\ MapIdle /\ JobIdle /\ JinjaIdle

SpecPipeline == PipelineInit /\ [][PipelineNext]_vars

C2_DenialIndependentOfStore ==
    (/\ secret_result.kind # "none"
     /\ ~user.is_superuser
     /\ ~exempt
     /\ \/ ~user.is_authenticated
        \/ "extras.view_secretsgroup" \notin user.permissions)
    => /\ secret_result.kind = "return"
       /\ secret_calls = <<>>
       /\ \A groups \in SUBSET Slugs :
            \A values \in [AccessTypes \X SecretTypes -> SecretValues \cup {NoSecret}] :
                get_secret_by_secret_group_slug(user, exempt, groups, values,
                    secret_args[1], secret_args[2], secret_args[3]).out = secret_result

\* An authenticated user without the capability asked for a group that does
\* not exist and got the denial string.
C2_Witness ==
    /\ secret_result.kind = "return"
    /\ secret_args # <<>>
    /\ secret_args[1] \notin secrets_groups
    /\ user.is_authenticated
    /\ ~user.is_superuser
    /\ ~exempt
    /\ secret_result.value = DenialString(secret_args[1])

(***************************************************************************)
(* Claims about get_device_to_settings_map (under SpecMap)                 *)
(***************************************************************************)
\* C6: the keys of the returned mapping are exactly the devices of the
\* queryset that belong to a group with a setting, and each value is a
\* setting of maximal weight among the settings of the device's groups.
C6_MaxWeightSetting ==
    map_pc = "done" =>
        LET qualifying(d) ==
                {g \in Groups : /\ g \in DOMAIN golden_config_setting
                                /\ d \in dynamic_group_filter[g].devices}
        IN  /\ DOMAIN device_to_settings_map =
                   {d \in map_queryset : qualifying(d) # {}}
            /\ \A d \in DOMAIN device_to_settings_map :
                   /\ device_to_settings_map[d] \in qualifying(d)
                   /\ \A g \in qualifying(d) :
                          golden_config_setting[g]
                              <= golden_config_setting[device_to_settings_map[d]]

\* Device 1 is in group 1 (weight 1) and group 2 (weight 2) and maps to the
\* setting of group 2.
C6_Witness ==
    /\ map_pc = "done"
    /\ 1 \in map_queryset
    /\ {1, 2} \subseteq DOMAIN golden_config_setting
    /\ 1 \in dynamic_group_filter[1].devices
    /\ 1 \in dynamic_group_filter[2].devices
    /\ golden_config_setting[1] = 1
    /\ golden_config_setting[2] = 2
    /\ device_to_settings_map[1] = 2

(***************************************************************************)
(* Claims about get_job_filter (under SpecScope)                           *)
(***************************************************************************)
\* C7: the base scope is all devices if a configured group has the trivial
\* filter and otherwise the union of the configured groups' devices, and the
\* call fails with the empty-base-scope error whenever that scope is empty,
\* in particular when no group has a setting.
C7_EmptyBaseScopeWhenNothingConfigured ==
    job_result.kind # "none" =>
        LET scope == IF \E g \in DOMAIN golden_config_setting :
                            dynamic_group_filter[g].filter = "{}"
                     THEN Devices
                     ELSE UNION {dynamic_group_filter[g].devices :
                                    g \in DOMAIN golden_config_setting}
        IN  /\ base_qs = scope
            /\ scope = {} =>
                   job_result = NornirNautobotException(EmptyBaseScopeMsg, {})

\* C8: exactly one outcome, decided in this order: the empty-base-scope error
\* if the base scope is empty; else the no-matching-devices error if no device
\* of the base scope satisfies the job parameters; else the missing-platform
\* error naming exactly the matched devices without a platform; else the
\* matched devices, all with a platform. The two emptiness errors differ.
C8_ValidationOrder ==
    job_result.kind # "none" =>
        LET matched ==
                {d \in base_qs :
                    /\ job_data.platform # {} => platform[d] \in job_data.platform
                    /\ job_data.device # {} => d \in job_data.device}
            no_platform == {d \in matched : platform[d] = NoPlatform}
        IN  /\ EmptyBaseScopeMsg # NoMatchingDevicesMsg
            /\ IF base_qs = {}
               THEN job_result = NornirNautobotException(EmptyBaseScopeMsg, {})
               ELSE IF matched = {}
               THEN job_result = NornirNautobotException(NoMatchingDevicesMsg, {})
               ELSE IF no_platform # {}
               THEN job_result = NornirNautobotException(MissingPlatformMsg, no_platform)
               ELSE /\ job_result = [kind |-> "return", value |-> "", devices |-> matched]
                    /\ \A d \in job_result.devices : platform[d] \in Platforms

\* Two devices matched, only device 2 has no platform, and the error names
\* device 2 alone.
C8_Witness ==
    /\ job_result.kind = "raise"
    /\ job_result.value = MissingPlatformMsg
    /\ job_result.devices = {2}
    /\ base_qs = Devices
    /\ job_data.platform = {}
    /\ job_data.device = {}
    /\ platform[1] \in Platforms

(***************************************************************************)
(* Claims about render_jinja_template (under SpecJinja)                    *)
(***************************************************************************)
EndsWith(text, suffix) ==
    /\ Len(text) >= Len(suffix)
    /\ SubSeq(text, Len(text) - Len(suffix) + 1, Len(text)) = suffix

\* C10: whenever a call ends on a template error of any of the three classes,
\* the call first recorded one failure entry against the device being
\* rendered, with the template text in its message.
C10_EveryErrorLoggedAgainstDevice ==
    (jinja_pc = "done" /\ jinja_error # "none") =>
        /\ Len(logger_entries) = jinja_log_base + 1
        /\ logger_entries[Len(logger_entries)].obj = device_name(jinja_obj)
        /\ EndsWith(logger_entries[Len(logger_entries)].message, jinja_template)

(***************************************************************************)
(* Claims about get_config_to_push and render_secrets (under SpecPipeline) *)
(***************************************************************************)
\* The failures the claim C3 lists.
ListedFailures ==
    {"parse:TemplateSyntaxError", "parse:TemplateAssertionError",
     "render:TemplateSyntaxError", "render:UndefinedError",
     "render:TemplateRuntimeError", "graph_ql_query", "no_reference"}

\* C3: every listed failure inside a stage is re-classified as
\* RenderConfigToPushError and the call ends by returning a string; it never
\* raises past its boundary.
C3_FailuresNeverEscape ==
    \A k \in DOMAIN invocations :
        invocations[k].failure \in ListedFailures =>
            /\ invocations[k].out = Raised("RenderConfigToPushError", invocations[k].out.value)
            /\ pipe_pc = "done"
            /\ push_result.kind = "return"

\* C4: once a stage raises RenderConfigToPushError no later stage is invoked,
\* and the call has returned "Find an error rendering the configuration to
\* push: <message>" with the stage's message, not the accumulated output.
C4_StopsAtFirstRenderError ==
    \A k \in DOMAIN invocations :
        (invocations[k].out.kind = "raise"
            /\ invocations[k].out.exc = "RenderConfigToPushError") =>
            /\ k = Len(invocations)
            /\ pipe_pc = "done"
            /\ push_result =
                   Returned("Find an error rendering the configuration to push: "
                                \o invocations[k].out.value)

\* A first stage returned output, the second raised, and a later name of the
\* list whose stage is registered was never reached.
C4_Witness ==
    /\ pipe_pc = "done"
    /\ Len(invocations) = 2
    /\ invocations[1].out.kind = "return"
    /\ invocations[1].out.value # ""
    /\ invocations[2].out.exc = "RenderConfigToPushError"
    /\ name_index < Len(config_push_subscribed)
    /\ \E f \in DOMAIN config_push_callable :
           config_push_callable[f].name = config_push_subscribed[name_index + 1]

\* The ordered list of names of a call: the caller's, else the configured
\* default, else the single built-in stage.
NamesOfCall ==
    IF custom_subscribed # <<>> THEN custom_subscribed
    ELSE IF plugin_subscribed # <<>> THEN plugin_subscribed
    ELSE <<"render_secrets">>

\* The registered stages with a name, in registry order.
StagesNamed(name) ==
    SelectSeq([f \in DOMAIN config_push_callable |-> f],
              LAMBDA f : config_push_callable[f].name = name)

RECURSIVE AllStagesOf(_)
AllStagesOf(names) ==
    IF names = <<>> THEN <<>>
    ELSE StagesNamed(Head(names)) \o AllStagesOf(Tail(names))

RECURSIVE FirstStagesOf(_)
FirstStagesOf(names) ==
    IF names = <<>> THEN <<>>
    ELSE (IF StagesNamed(Head(names)) = <<>> THEN <<>>
          ELSE <<Head(StagesNamed(Head(names)))>>) \o FirstStagesOf(Tail(names))

\* The stages invoked so far follow the expected sequence, each fed the
\* previous one's output, and a call that ended without an exception invoked
\* them all and returned the last output.
FollowsStages(expected) ==
    pipe_pc # "idle" =>
        /\ Len(invocations) <= Len(expected)
        /\ \A k \in DOMAIN invocations :
               /\ invocations[k].func = expected[k]
               /\ invocations[k].input =
                      IF k = 1 THEN "" ELSE invocations[k - 1].out.value
        /\ (pipe_pc = "done" /\ \A k \in DOMAIN invocations :
                                     invocations[k].out.kind = "return") =>
               /\ Len(invocations) = Len(expected)
               /\ push_result =
                      Returned(IF invocations = <<>> THEN ""
                               ELSE invocations[Len(invocations)].out.value)

\* C5 as stated: for each name of the list, in order, only the first
\* registered stage with that name is invoked.
C5_FirstRegisteredStageOnly == FollowsStages(FirstStagesOf(NamesOfCall))

\* C5 as amended: for each name of the list, in order, every registered stage
\* with that name is invoked once, in registry order.
C5_EveryRegisteredStageInOrder == FollowsStages(AllStagesOf(NamesOfCall))

\* A name without a stage was skipped, two stages registered under one name
\* both ran, the second on the output of the first.
C5_Witness ==
    /\ pipe_pc = "done"
    /\ custom_subscribed = <<"not_registered", "encrypt">>
    /\ Len(invocations) = 2
    /\ invocations[1].func = 2
    /\ invocations[2].func = 3
    /\ invocations[2].input = invocations[1].out.value
    /\ push_result = Returned(invocations[2].out.value)

\* C9: render_secrets renders from its input when that is non-empty and from
\* the stored intended configuration otherwise; with both empty it raises the
\* no-reference error before parsing a template, resolving the settings or
\* querying the context data. The stored intended configuration never changes.
C9_RenderSourceAndFailFast ==
    /\ [](\A k \in DOMAIN invocations :
            config_push_callable[invocations[k].func].effect = "render_secrets" =>
                /\ invocations[k].input # "" =>
                       invocations[k].source = invocations[k].input
                /\ invocations[k].input = "" =>
                       invocations[k].source = intended_config
                /\ invocations[k].failure = "none" =>
                       invocations[k].out =
                           Returned(invocations[k].source \o " [rendered]")
                /\ (invocations[k].input = "" /\ intended_config = "") =>
                       /\ invocations[k].out =
                              Raised("RenderConfigToPushError", NoReferenceMsg)
                       /\ invocations[k].calls = <<>>)
    /\ [][intended_config' = intended_config]_vars

\* render_secrets ran after another stage and rendered that stage's output,
\* although an intended configuration is stored.
C9_Witness ==
    /\ intended_config # ""
    /\ Len(invocations) = 2
    /\ config_push_callable[invocations[2].func].effect = "render_secrets"
    /\ invocations[2].input # ""
    /\ invocations[2].source = invocations[1].out.value
    /\ invocations[2].out.kind = "return"

====
